---- MODULE Spec2Model ----
(***************************************************************************)
(* Model of NameGenderMapper.py: a script that aggregates a reference file *)
(* of (name, gender[, country]) rows into count tables, turns the tables   *)
(* into name -> (gender, confidence, total) mappings, streams an input     *)
(* file through a decision cascade that appends (gender, confidence,       *)
(* source) to every row, and finally writes an audit file of ambiguous     *)
(* names.                                                                  *)
(*                                                                         *)
(* Python strings are sequences of one-character strings, so that strip,   *)
(* split, lower, upper, startswith and "{:.3f}".format are computed and    *)
(* not assumed.  Python dicts and Counters are sequences of [k, v] records *)
(* in insertion order, which is the order iteration and most_common use.   *)
(* Confidences are exact rationals <<n, d>>; the comparisons the script    *)
(* makes (against 0.65, 0.7, 0.85, 0.5, 1.0 and 0.0) have the same outcome *)
(* on the correctly rounded doubles and on the rationals.                  *)
(***************************************************************************)
EXTENDS Integers, Sequences, FiniteSets, TLC

VARIABLES
    pc,                 \* position of the script
    GG_AVAILABLE,       \* whether the optional gender_guesser import succeeded
    name_idx,           \* column roles of the reference file (0-based)
    gender_idx,
    country_idx,        \* -1 models None
    counts_global,      \* dict: first name -> Counter
    counts_by_country,  \* dict: country -> dict: first name -> Counter
    mapping,            \* dict: first name -> <<gender, conf, total>>
    mapping_country,    \* dict: <<country, first name>> -> <<gender, conf, total>>
    in_read,            \* the rows of the input file consumed so far
    output,             \* the rows written to OUTPUT_FILE
    written,            \* number of decorated rows written
    stats,              \* Counter: source -> rows
    last,               \* <<>> or <<r>>: the loop variables after the latest input row
    audit               \* the rows written to AUDIT_FILE

vars == <<pc, GG_AVAILABLE, name_idx, gender_idx, country_idx, counts_global,
          counts_by_country, mapping, mapping_country, in_read, output,
          written, stats, last, audit>>

-----------------------------------------------------------------------------
(* Bounds of the model *)

MaxRefRows == 6
MaxInRows == 1
MaxStreamRows == 2
MaxNameLen == 6
MaxTableCount == 6

-----------------------------------------------------------------------------
(* Characters and strings *)

UpperLetters == <<"A","B","C","D","E","F","G","H","I","J","K","L","M",
                  "N","O","P","Q","R","S","T","U","V","W","X","Y","Z">>
LowerLetters == <<"a","b","c","d","e","f","g","h","i","j","k","l","m",
                  "n","o","p","q","r","s","t","u","v","w","x","y","z">>
Digits == <<"0","1","2","3","4","5","6","7","8","9">>

Range(s) == {s[i] : i \in 1..Len(s)}

Whitespace == {" ", "\t"}

\* list.index(c): the first position, 1-based
IndexIn(c, s) == CHOOSE i \in 1..Len(s) : s[i] = c /\ \A j \in 1..(i - 1) : s[j] # c

\* str.lower() and str.upper() of one character

lower_char(c) == IF \E i \in 1..26 : UpperLetters[i] = c
                 THEN LowerLetters[CHOOSE i \in 1..26 : UpperLetters[i] = c] ELSE c

upper_char(c) == IF \E i \in 1..26 : LowerLetters[i] = c
                 THEN UpperLetters[CHOOSE i \in 1..26 : LowerLetters[i] = c] ELSE c

lower(s) == [i \in 1..Len(s) |-> lower_char(s[i])]

upper(s) == [i \in 1..Len(s) |-> upper_char(s[i])]

RECURSIVE lstrip(_)
lstrip(s) == IF s # <<>> /\ Head(s) \in Whitespace THEN lstrip(Tail(s)) ELSE s

RECURSIVE rstrip(_)
rstrip(s) == IF s # <<>> /\ s[Len(s)] \in Whitespace
             THEN rstrip(SubSeq(s, 1, Len(s) - 1)) ELSE s

strip(s) == rstrip(lstrip(s))

\* str.split() with no argument: the maximal runs of non-whitespace characters
RECURSIVE split_from(_, _, _)
split_from(s, cur, acc) ==
    IF s = <<>>
    THEN IF cur = <<>> THEN acc ELSE Append(acc, cur)
    ELSE IF Head(s) \in Whitespace
         THEN split_from(Tail(s), <<>>, IF cur = <<>> THEN acc ELSE Append(acc, cur))
         ELSE split_from(Tail(s), Append(cur, Head(s)), acc)

split(s) == split_from(s, <<>>, <<>>)

startswith(s, p) == Len(s) >= Len(p) /\ SubSeq(s, 1, Len(p)) = p

\* str(n) of a non-negative int
RECURSIVE int_str(_)
int_str(n) == IF n < 10 THEN <<Digits[n + 1]>>
              ELSE Append(int_str(n \div 10), Digits[(n % 10) + 1])

\* _valid_chars_re matches every character that is NOT one of these.  The
\* accented ranges of the pattern are outside the alphabet of the model.
valid_char(c) == \/ c \in Range(UpperLetters)
                 \/ c \in Range(LowerLetters)
                 \/ c \in {"'", "-"}
                 \/ c \in Whitespace

\* _valid_chars_re.sub('', s)
valid_chars_sub(s) == SelectSeq(s, valid_char)

-----------------------------------------------------------------------------
(* String literals of the script *)

G_M == <<"M">>
G_F == <<"F">>
G_Unknown == <<"U","n","k","n","o","w","n">>

S_country_mapped == <<"c","o","u","n","t","r","y","-","m","a","p","p","e","d">>
S_mapped == <<"m","a","p","p","e","d">>
S_gender_guesser == <<"g","e","n","d","e","r","-","g","u","e","s","s","e","r">>
S_unknown == <<"u","n","k","n","o","w","n">>

L_name == <<"n","a","m","e">>
L_gender == <<"g","e","n","d","e","r">>
L_sex == <<"s","e","x">>
L_country == <<"c","o","u","n","t","r","y">>
L_m == <<"m">>
L_f == <<"f">>

OutputColumns == << <<"G","e","n","d","e","r">>,
                    <<"G","e","n","d","e","r","C","o","n","f","i","d","e","n","c","e">>,
                    <<"G","e","n","d","e","r","S","o","u","r","c","e">> >>

DefaultHeader == << <<"N","a","m","e">>,
                    <<"C","o","u","n","t","r","y">>,
                    <<"A","d","d","r","e","s","s">>,
                    <<"C","i","t","y">>,
                    <<"S","t","a","t","e">>,
                    <<"Z","i","p">>,
                    <<"P","h","o","n","e"," ","N","u","m","b","e","r">> >>
                 \o OutputColumns

AuditHeader == << <<"f","i","r","s","t","_","n","a","m","e">>,
                  <<"t","o","p","_","g","e","n","d","e","r">>,
                  <<"t","o","p","_","c","o","u","n","t">>,
                  <<"s","e","c","o","n","d","_","c","o","u","n","t">>,
                  <<"t","o","t","a","l","_","c","o","u","n","t">>,
                  <<"c","o","n","f","i","d","e","n","c","e">> >>

-----------------------------------------------------------------------------
(* Confidences *)

CONF_THRESHOLD == <<13, 20>>
GG_ACCEPT == <<17, 20>>
AUDIT_CONF == <<7, 10>>
PENALTY == <<7, 10>>
MIN_COUNT_FOR_CONFIDENCE == 5
AUDIT_MIN_TOTAL == 50
AUDIT_MIN_GAP == 3
Zero == <<0, 1>>
One == <<1, 1>>

rat_lt(a, b) == a[1] * b[2] < b[1] * a[2]
rat_ge(a, b) == ~rat_lt(a, b)
rat_gt(a, b) == rat_lt(b, a)
rat_eq(a, b) == a[1] * b[2] = b[1] * a[2]
rat_mul(a, b) == <<a[1] * b[1], a[2] * b[2]>>

\* "{:.3f}".format(conf): the nearest multiple of 0.001, a tie to the even one
thousandths(c) ==
    LET q == (1000 * c[1]) \div c[2]
        r == (1000 * c[1]) % c[2]
    IN  IF 2 * r > c[2] THEN q + 1
        ELSE IF 2 * r < c[2] THEN q
        ELSE IF q % 2 = 0 THEN q ELSE q + 1

format_3f(c) ==
    LET t == thousandths(c)
    IN  int_str(t \div 1000) \o <<".">> \o
        <<Digits[((t \div 100) % 10) + 1], Digits[((t \div 10) % 10) + 1],
          Digits[(t % 10) + 1]>>

-----------------------------------------------------------------------------
(* dict and Counter, in insertion order *)

has(d, k) == \E i \in 1..Len(d) : d[i].k = k

get(d, k) == d[CHOOSE i \in 1..Len(d) : d[i].k = k].v

put(d, k, v) ==
    IF has(d, k)
    THEN [i \in 1..Len(d) |-> IF d[i].k = k THEN [k |-> k, v |-> v] ELSE d[i]]
    ELSE Append(d, [k |-> k, v |-> v])

\* defaultdict(Counter)[k][label] += 1
counter_inc(ctr, label) ==
    put(ctr, label, (IF has(ctr, label) THEN get(ctr, label) ELSE 0) + 1)

table_inc(d, k, label) ==
    put(d, k, counter_inc(IF has(d, k) THEN get(d, k) ELSE <<>>, label))

RECURSIVE counter_total(_)
counter_total(ctr) ==
    IF ctr = <<>> THEN 0 ELSE Head(ctr).v + counter_total(Tail(ctr))

\* the first of the items with the largest count, as max() and a stable sort give
top_index(ctr) ==
    CHOOSE i \in 1..Len(ctr) :
        \A j \in 1..Len(ctr) : /\ ctr[j].v <= ctr[i].v
                               /\ (j < i => ctr[j].v < ctr[i].v)

remove_at(s, i) == SubSeq(s, 1, i - 1) \o SubSeq(s, i + 1, Len(s))

\* Counter.most_common(): sorted by count, descending, stable
RECURSIVE most_common(_)
most_common(ctr) ==
    IF ctr = <<>> THEN <<>>
    ELSE <<ctr[top_index(ctr)]>> \o most_common(remove_at(ctr, top_index(ctr)))

-----------------------------------------------------------------------------
(* Pure functions of the script *)

normalize_gender(g) ==
    IF g = <<>> THEN G_Unknown
    ELSE LET s == lower(strip(g))
         IN  IF s = L_m \/ startswith(s, L_m) THEN G_M
             ELSE IF s = L_f \/ startswith(s, L_f) THEN G_F
             ELSE G_Unknown

\* the mutant examines the tokens after an initial until a long one is found
RECURSIVE first_long_token(_)
first_long_token(tokens) ==
    IF tokens = <<>> THEN <<>>
    ELSE IF Len(Head(tokens)) > 1 THEN lower(Head(tokens))
    ELSE first_long_token(Tail(tokens))

get_first_name_skip_initials(full_name) ==
    first_long_token(split(valid_chars_sub(strip(full_name))))

get_first_name(full_name) ==
    IF full_name = <<>> THEN <<>>
    ELSE LET s == valid_chars_sub(strip(full_name))
             tokens == split(s)
         IN  IF tokens = <<>> THEN <<>>
             ELSE IF Len(tokens[1]) = 1
                  THEN IF Len(tokens) > 1 /\ Len(tokens[2]) > 1
                       THEN lower(tokens[2])
                       ELSE <<>>
                  ELSE lower(tokens[1])

GGCategories == {"male", "mostly_male", "female", "mostly_female", "andy", "unknown"}

\* cat is what gg.get_gender(first) answers; the library is outside the script
gg_guess(first, cat) ==
    IF ~GG_AVAILABLE \/ first = <<>> THEN <<G_Unknown, Zero>>
    ELSE IF cat = "male" THEN <<G_M, One>>
    ELSE IF cat = "mostly_male" THEN <<G_M, <<17, 20>>>>
    ELSE IF cat = "female" THEN <<G_F, One>>
    ELSE IF cat = "mostly_female" THEN <<G_F, <<17, 20>>>>
    ELSE IF cat = "andy" THEN <<G_Unknown, <<1, 2>>>>
    ELSE <<G_Unknown, Zero>>

-----------------------------------------------------------------------------
(* ConfidenceModel: count tables -> mappings *)

\* mutant: the low-count penalty is applied to unanimous names too
conf_entry_always_penalized(ctr) ==
    LET total == counter_total(ctr)
        top == ctr[top_index(ctr)]
        conf == <<top.v, total>>
    IN  <<top.k,
          IF total < MIN_COUNT_FOR_CONFIDENCE THEN rat_mul(conf, PENALTY) ELSE conf,
          total>>

\* mutant: no low-count penalty at all
conf_entry_unpenalized(ctr) ==
    LET total == counter_total(ctr)
        top == ctr[top_index(ctr)]
    IN  <<top.k, <<top.v, total>>, total>>

conf_entry(ctr) ==
    LET total == counter_total(ctr)
        top == ctr[top_index(ctr)]
        conf == <<top.v, total>>
    IN  <<top.k,
          IF total < MIN_COUNT_FOR_CONFIDENCE /\ rat_lt(conf, One)
          THEN rat_mul(conf, PENALTY) ELSE conf,
          total>>

nonzero(item) == counter_total(item.v) # 0

build_mapping(counts) ==
    LET kept == SelectSeq(counts, nonzero)
    IN  [i \in 1..Len(kept) |-> [k |-> kept[i].k, v |-> conf_entry(kept[i].v)]]

RECURSIVE build_mapping_country(_)
build_mapping_country(by_country) ==
    IF by_country = <<>> THEN <<>>
    ELSE LET country == Head(by_country).k
             d == SelectSeq(Head(by_country).v, nonzero)
         IN  [i \in 1..Len(d) |->
                 [k |-> <<country, d[i].k>>, v |-> conf_entry(d[i].v)]]
             \o build_mapping_country(Tail(by_country))

-----------------------------------------------------------------------------
(* DecisionEngine: the cascade of one input row *)

Result(g, c, s) == [g |-> g, c |-> c, s |-> s]

DefaultResult == Result(G_Unknown, Zero, S_unknown)

\* mutant: the global mapping is consulted before the country mapping
mapping_lookup_global_first(country, fname) ==
    IF fname = <<>> THEN DefaultResult
    ELSE IF has(mapping, fname) /\ rat_ge(get(mapping, fname)[2], CONF_THRESHOLD)
         THEN Result(get(mapping, fname)[1], get(mapping, fname)[2], S_mapped)
         ELSE IF has(mapping_country, <<country, fname>>)
                 /\ rat_ge(get(mapping_country, <<country, fname>>)[2], CONF_THRESHOLD)
              THEN Result(get(mapping_country, <<country, fname>>)[1],
                          get(mapping_country, <<country, fname>>)[2], S_country_mapped)
              ELSE DefaultResult

mapping_lookup(country, fname) ==
    IF fname = <<>> THEN DefaultResult
    ELSE IF has(mapping_country, <<country, fname>>)
         THEN LET e == get(mapping_country, <<country, fname>>)
              IN  IF rat_ge(e[2], CONF_THRESHOLD)
                  THEN Result(e[1], e[2], S_country_mapped)
                  ELSE DefaultResult
         ELSE IF has(mapping, fname)
              THEN LET e == get(mapping, fname)
                   IN  IF rat_ge(e[2], CONF_THRESHOLD)
                       THEN Result(e[1], e[2], S_mapped)
                       ELSE DefaultResult
              ELSE DefaultResult

\* mutant: the classifier is consulted for low-confidence entries only
use_gg_low_confidence_only(fname) ==
    has(mapping, fname) /\ rat_lt(get(mapping, fname)[2], CONF_THRESHOLD)

use_gg(fname) ==
    IF ~has(mapping, fname) THEN TRUE
    ELSE rat_lt(get(mapping, fname)[2], CONF_THRESHOLD)

\* whether the row's cascade calls gg_guess
gg_called(r, fname) ==
    r.g = G_Unknown /\ fname # <<>> /\ use_gg(fname) /\ GG_AVAILABLE

\* mutant: the candidate branch keeps the classifier's confidence
fallback_block_gg_conf(r, fname, cat) ==
    IF gg_called(r, fname)
    THEN LET gg == gg_guess(fname, cat)
             cand_conf == IF has(mapping, fname) THEN get(mapping, fname)[2] ELSE Zero
         IN  IF rat_ge(gg[2], GG_ACCEPT) \/ rat_gt(gg[2], cand_conf)
             THEN Result(gg[1], gg[2], S_gender_guesser)
             ELSE IF has(mapping, fname) /\ rat_gt(cand_conf, gg[2])
                  THEN Result(get(mapping, fname)[1], gg[2], S_mapped)
                  ELSE r
    ELSE IF r.g = G_Unknown /\ fname # <<>> /\ has(mapping, fname)
         THEN Result(get(mapping, fname)[1], get(mapping, fname)[2], S_mapped)
         ELSE r

fallback_block(r, fname, cat) ==
    IF r.g = G_Unknown /\ fname # <<>>
    THEN IF use_gg(fname) /\ GG_AVAILABLE
         THEN LET gg == gg_guess(fname, cat)
                  cand_conf == IF has(mapping, fname)
                               THEN get(mapping, fname)[2] ELSE Zero
              IN  IF rat_ge(gg[2], GG_ACCEPT) \/ rat_gt(gg[2], cand_conf)
                  THEN Result(gg[1], gg[2], S_gender_guesser)
                  ELSE IF has(mapping, fname)
                       THEN IF rat_gt(cand_conf, gg[2])
                            THEN Result(get(mapping, fname)[1], cand_conf, S_mapped)
                            ELSE r
                       ELSE r
         ELSE IF has(mapping, fname)
              THEN Result(get(mapping, fname)[1], get(mapping, fname)[2], S_mapped)
              ELSE r
    ELSE r

\* mutant: no final fallback
final_fallback_missing(r, fname) == r

final_fallback(r, fname) ==
    IF r.g = G_Unknown /\ fname # <<>> /\ has(mapping, fname)
    THEN Result(get(mapping, fname)[1], get(mapping, fname)[2], S_mapped)
    ELSE r

row_country(row) == IF Len(row) > 1 THEN upper(strip(row[2])) ELSE <<>>

cascade(country, fname, cat) ==
    final_fallback(fallback_block(mapping_lookup(country, fname), fname, cat), fname)

\* mutant: the confidence is written with two decimals, "{:.2f}"
result_cells_2f(r) ==
    LET h == thousandths(<<r.c[1], 10 * r.c[2]>>)
    IN  <<r.g,
          int_str(h \div 100) \o <<".">> \o
              <<Digits[((h \div 10) % 10) + 1], Digits[(h % 10) + 1]>>,
          r.s>>

result_cells(r) == <<r.g, format_3f(r.c), r.s>>

-----------------------------------------------------------------------------
(* AuditReporter *)

\* mutant: a low total alone does not flag a name
audit_flag_no_total(ctr) ==
    LET most == most_common(ctr)
        total == counter_total(ctr)
        second_count == IF Len(most) > 1 THEN most[2].v ELSE 0
    IN  \/ rat_lt(<<most[1].v, total>>, AUDIT_CONF)
        \/ (Len(most) > 1 /\ most[1].v - second_count < AUDIT_MIN_GAP)

audit_flag(ctr) ==
    LET most == most_common(ctr)
        total == counter_total(ctr)
        top_count == most[1].v
        second_count == IF Len(most) > 1 THEN most[2].v ELSE 0
        conf == <<top_count, total>>
    IN  \/ total < AUDIT_MIN_TOTAL
        \/ rat_lt(conf, AUDIT_CONF)
        \/ (Len(most) > 1 /\ top_count - second_count < AUDIT_MIN_GAP)

audit_row(fname, ctr) ==
    LET most == most_common(ctr)
        total == counter_total(ctr)
        second_count == IF Len(most) > 1 THEN most[2].v ELSE 0
    IN  <<fname, most[1].k, int_str(most[1].v), int_str(second_count),
          int_str(total), format_3f(<<most[1].v, total>>)>>

RECURSIVE audit_rows(_)
audit_rows(counts) ==
    IF counts = <<>> THEN <<>>
    ELSE (IF counter_total(Head(counts).v) # 0 /\ audit_flag(Head(counts).v)
          THEN <<audit_row(Head(counts).k, Head(counts).v)>> ELSE <<>>)
         \o audit_rows(Tail(counts))

-----------------------------------------------------------------------------
(* The files: what the readers may yield *)

N_Alex == <<"A","l","e","x">>
N_alex == <<"a","l","e","x">>
N_K_alex == <<"K"," ","a","l","e","x","!">>
N_K == <<"K">>
N_Alex_Smith == <<"A","l","e","x"," ","S","m","i","t","h">>
N_K_N_Johnson == <<"K"," ","N"," ","J","o","h","n","s","o","n">>
N_K_Johnson == <<"K"," ","J","o","h","n","s","o","n">>
N_Mary_Ann_Smith == <<"M","a","r","y"," ","A","n","n"," ","S","m","i","t","h">>
N_Kim == <<"K","i","m">>
N_Name == <<"N","a","m","e">>
C_US == <<"U","S">>
C_us == <<" ","u","s">>
C_ke == <<"k","e">>

G_female == <<"f","e","m","a","l","e">>
RawGenders == {<<"M">>, G_female, <<"x">>, <<>>}

RefHeaders == { <<N_Name, <<"G","e","n","d","e","r">>>>,
                <<L_name, <<" ","S","e","x">>, <<"C","o","u","n","t","r","y">>>> }

\* reference rows: every label with a country, "M" without one, a name that
\* yields no token, a blank line
RefRows == {<<n, g, c>> : n \in {N_Alex, N_K_alex}, g \in RawGenders, c \in {C_US, C_us}}
           \cup {<<N_Alex, <<"M">>>>, <<N_Alex, <<"m","a","l","e">>, <<>>>>,
                 <<N_K, <<"M">>>>, <<N_K>>, <<>>}

\* input rows of the cascade: a token with a country the mapping may know, the
\* same token elsewhere, a name that yields no token
InRows == {<<N_Alex_Smith, C_US>>, <<N_Alex_Smith, C_ke>>, <<N_K_N_Johnson, C_US>>}

\* reference files of at most one row, for the stream
StreamRefRows == {<<N_Name, <<"S","e","x">>>>, <<N_Alex, <<"M">>>>, <<>>}

\* input rows of the stream: data rows of one to three cells, rows that look
\* like a header, a blank line
StreamRows == {<<N_Alex_Smith, C_US>>, <<N_Kim>>, <<N_K_N_Johnson, C_ke, <<"x">>>>,
               <<N_Name, <<"C","o","u","n","t","r","y">>>>, <<<<" ","n","a","m","e"," ">>>>,
               <<>>}

\* every string over a small alphabet, for the normalizer
NormAlphabet == {"K", "a", " ", "1"}

NormStrings == UNION {[1..n -> NormAlphabet] : n \in 0..MaxNameLen}

NormRows == {<<s>> : s \in NormStrings}
            \cup {<<N_K_N_Johnson>>, <<N_K_Johnson>>, <<N_Mary_Ann_Smith>>}

-----------------------------------------------------------------------------
(* The script, step by step *)

Init ==
    /\ pc = "ref_first"
    /\ GG_AVAILABLE \in BOOLEAN
    /\ name_idx = 0
    /\ gender_idx = 1
    /\ country_idx = -1
    /\ counts_global = <<>>
    /\ counts_by_country = <<>>
    /\ mapping = <<>>
    /\ mapping_country = <<>>
    /\ in_read = <<>>
    /\ output = <<>>
    /\ written = 0
    /\ stats = <<>>
    /\ last = <<>>
    /\ audit = <<>>

field(row, idx) == IF Len(row) > idx THEN row[idx + 1] ELSE <<>>

\* rows aggregated so far: the sum of all counts of counts_global
RECURSIVE table_total(_)
table_total(counts) ==
    IF counts = <<>> THEN 0
    ELSE counter_total(Head(counts).v) + table_total(Tail(counts))

\* first_row = next(reader, None) when the reference file is empty
RefEmpty ==
    /\ pc = "ref_first"
    /\ pc' = "build"
    /\ UNCHANGED <<GG_AVAILABLE, name_idx, gender_idx, country_idx, counts_global,
                   counts_by_country, mapping, mapping_country, in_read, output,
                   written, stats, last, audit>>

\* the first row of the reference file: a header that names the columns, or data
ReadRefFirstRow(pool) ==
    /\ pc = "ref_first"
    /\ \E first_row \in pool :
          LET lowered == [i \in 1..Len(first_row) |-> lower(strip(first_row[i]))]
              fname == get_first_name(field(first_row, name_idx))
          IN  IF first_row # <<>> /\ L_name \in Range(lowered)
              THEN /\ name_idx' = IndexIn(L_name, lowered) - 1
                   /\ gender_idx' =
                         IF L_gender \in Range(lowered) THEN IndexIn(L_gender, lowered) - 1
                         ELSE IF L_sex \in Range(lowered) THEN IndexIn(L_sex, lowered) - 1
                         ELSE gender_idx
                   /\ country_idx' =
                         IF L_country \in Range(lowered)
                         THEN IndexIn(L_country, lowered) - 1 ELSE country_idx
                   /\ UNCHANGED counts_global
              ELSE /\ counts_global' =
                         IF first_row # <<>> /\ fname # <<>>
                         THEN table_inc(counts_global, fname,
                                        normalize_gender(field(first_row, gender_idx)))
                         ELSE counts_global
                   /\ UNCHANGED <<name_idx, gender_idx, country_idx>>
    /\ pc' = "ref_rows"
    /\ UNCHANGED <<GG_AVAILABLE, counts_by_country, mapping, mapping_country,
                   in_read, output, written, stats, last, audit>>

\* one iteration of "for row in reader" over the reference file
ReadRefRow(pool, max_rows) ==
    /\ pc = "ref_rows"
    /\ table_total(counts_global) < max_rows
    /\ \E row \in pool :
          LET fname == get_first_name(field(row, name_idx))
              gnorm == normalize_gender(field(row, gender_idx))
              country == IF Len(row) > country_idx
                         THEN upper(strip(row[country_idx + 1])) ELSE <<>>
          IN  IF row = <<>> \/ fname = <<>>
              THEN UNCHANGED <<counts_global, counts_by_country>>
              ELSE /\ counts_global' = table_inc(counts_global, fname, gnorm)
                   /\ counts_by_country' =
                         IF country_idx # -1 /\ country # <<>>
                         THEN put(counts_by_country, country,
                                  table_inc(IF has(counts_by_country, country)
                                            THEN get(counts_by_country, country)
                                            ELSE <<>>,
                                            fname, gnorm))
                         ELSE counts_by_country
    /\ UNCHANGED <<pc, GG_AVAILABLE, name_idx, gender_idx, country_idx, mapping,
                   mapping_country, in_read, output, written, stats, last, audit>>

\* the reference file is exhausted
RefEOF ==
    /\ pc = "ref_rows"
    /\ pc' = "build"
    /\ UNCHANGED <<GG_AVAILABLE, name_idx, gender_idx, country_idx, counts_global,
                   counts_by_country, mapping, mapping_country, in_read, output,
                   written, stats, last, audit>>

\* both mapping loops, then written = 0 and stats = Counter()
BuildMapping ==
    /\ pc = "build"
    /\ mapping' = build_mapping(counts_global)
    /\ mapping_country' = build_mapping_country(counts_by_country)
    /\ written' = 0
    /\ stats' = <<>>
    /\ pc' = "in_header"
    /\ UNCHANGED <<GG_AVAILABLE, name_idx, gender_idx, country_idx, counts_global,
                   counts_by_country, in_read, output, last, audit>>

\* header = next(reader, None) when the input file is empty: the default
\* header is written, the loop has nothing to read, the audit file is written
InputEmpty ==
    /\ pc = "in_header"
    /\ output' = <<DefaultHeader>>
    /\ audit' = <<AuditHeader>> \o audit_rows(counts_global)
    /\ pc' = "done"
    /\ UNCHANGED <<GG_AVAILABLE, name_idx, gender_idx, country_idx, counts_global,
                   counts_by_country, mapping, mapping_country, in_read, written,
                   stats, last>>

\* header = next(reader, None): the first row of the input file, whatever it holds
ReadInputHeader(pool) ==
    /\ pc = "in_header"
    /\ \E header \in pool :
          /\ in_read' = <<header>>
          /\ output' = IF header # <<>> THEN <<header \o OutputColumns>>
                       ELSE <<DefaultHeader>>
    /\ pc' = "in_rows"
    /\ UNCHANGED <<GG_AVAILABLE, name_idx, gender_idx, country_idx, counts_global,
                   counts_by_country, mapping, mapping_country, written, stats,
                   last, audit>>

\* what gg.get_gender may answer for the row: asked only when the cascade asks
gg_answers(country, fname) ==
    IF gg_called(mapping_lookup(country, fname), fname)
    THEN GGCategories ELSE {"not called"}

\* one iteration of "for row in reader" over the input file
ProcessInputRow(pool, max_rows) ==
    /\ pc = "in_rows"
    /\ Len(in_read) <= max_rows
    /\ \E row \in pool :
          /\ in_read' = Append(in_read, row)
          /\ IF row = <<>> \/ lower(strip(row[1])) = L_name
             THEN UNCHANGED <<output, written, stats, last>>
             ELSE \E country \in {row_country(row)}, fname \in {get_first_name(row[1])} :
                  \E cat \in gg_answers(country, fname) :
                  \E r \in {cascade(country, fname, cat)} :
                      /\ output' = Append(output, row \o result_cells(r))
                      /\ written' = written + 1
                      /\ stats' = counter_inc(stats, r.s)
                      /\ last' = << [row |-> row,
                                     country |-> country,
                                     fname |-> fname,
                                     chosen_gender |-> r.g,
                                     chosen_conf |-> r.c,
                                     source |-> r.s,
                                     gg |-> cat] >>
    /\ UNCHANGED <<pc, GG_AVAILABLE, name_idx, gender_idx, country_idx, counts_global,
                   counts_by_country, mapping, mapping_country, audit>>

\* the input file is exhausted; the audit file: its header, then one row per
\* flagged name
WriteAudit ==
    /\ pc = "in_rows"
    /\ audit' = <<AuditHeader>> \o audit_rows(counts_global)
    /\ pc' = "done"
    /\ UNCHANGED <<GG_AVAILABLE, name_idx, gender_idx, country_idx, counts_global,
                   counts_by_country, mapping, mapping_country, in_read, output,
                   written, stats, last>>

InHeader == <<N_Name, <<"C","o","u","n","t","r","y">>>>

Next ==
    \/ RefEmpty
    \/ ReadRefFirstRow(RefRows \cup RefHeaders)
    \/ ReadRefRow(RefRows, MaxRefRows)
    \/ RefEOF
    \/ BuildMapping
    \/ InputEmpty
    \/ ReadInputHeader({InHeader})
    \/ ProcessInputRow(InRows, MaxInRows)
    \/ WriteAudit

Spec == Init /\ [][Next]_vars

\* the stream: any first row, then rows of every shape
NextStream ==
    \/ RefEmpty
    \/ ReadRefFirstRow(StreamRefRows)
    \/ RefEOF
    \/ BuildMapping
    \/ InputEmpty
    \/ ReadInputHeader(StreamRows)
    \/ ProcessInputRow(StreamRows, MaxStreamRows)
    \/ WriteAudit

SpecStream == Init /\ [][NextStream]_vars

\* the normalizer: an empty reference file, then one input row of any name (the
\* name token of a row depends on nothing but the row)
NextNorm ==
    \/ RefEmpty
    \/ BuildMapping
    \/ ReadInputHeader({InHeader})
    \/ ProcessInputRow(NormRows, 1)
    \/ WriteAudit

SpecNorm == Init /\ [][NextNorm]_vars

\* the tables: count tables of any size, then the mappings and the audit file
Labels == {G_M, G_F, G_Unknown}

TableCounts == (1..MaxTableCount) \cup {8, 20, 35, 48, 50, 1000}

Item(k, v) == [k |-> k, v |-> v]

\* Counters in every insertion order; a third label is a rare one
TableCounters ==
    {<<Item(a, m)>> : a \in Labels, m \in TableCounts}
    \cup {<<Item(a, m), Item(b, n)>> :
             a \in Labels, b \in Labels, m \in TableCounts, n \in TableCounts}
    \cup {<<Item(a, m), Item(b, n), Item(c, o)>> :
             a \in Labels, b \in Labels, c \in Labels,
             m \in TableCounts, n \in TableCounts, o \in 1..2}

distinct_keys(ctr) == \A i, j \in 1..Len(ctr) : ctr[i].k = ctr[j].k => i = j

T_kim == <<"k","i","m">>

\* a second name, aggregated from rows without a country
OtherNames == { <<>>,
                <<Item(T_kim, <<Item(G_F, 2), Item(G_M, 2)>>)>>,
                <<Item(T_kim, <<Item(G_Unknown, 60)>>)>> }

\* the state after a reference file whose rows for "alex" all carry the country
\* US (or that has no country column) has been aggregated
InitTables ==
    /\ pc = "build"
    /\ GG_AVAILABLE \in BOOLEAN
    /\ name_idx = 0
    /\ gender_idx = 1
    /\ \E ctr \in {c \in TableCounters : distinct_keys(c)}, other \in OtherNames :
          /\ counts_global \in {<<Item(N_alex, ctr)>> \o other,
                                other \o <<Item(N_alex, ctr)>>}
          /\ \/ country_idx = -1 /\ counts_by_country = <<>>
             \/ country_idx = 2
                /\ counts_by_country = <<Item(C_US, <<Item(N_alex, ctr)>>)>>
    /\ mapping = <<>>
    /\ mapping_country = <<>>
    /\ in_read = <<>>
    /\ output = <<>>
    /\ written = 0
    /\ stats = <<>>
    /\ last = <<>>
    /\ audit = <<>>

NextTables ==
    \/ BuildMapping
    \/ InputEmpty

SpecTables == InitTables /\ [][NextTables]_vars

-----------------------------------------------------------------------------
(* Vocabulary of the properties *)

Decided == last # <<>>

\* the latest input row that was decorated, its country and its name token
TheRow == last[1].row
TheCountry == last[1].country
TheToken == last[1].fname

\* the three cells appended to the latest row of the output file
Emitted == SubSeq(output[Len(output)], Len(output[Len(output)]) - 2,
                  Len(output[Len(output)]))

HasScoped == has(mapping_country, <<TheCountry, TheToken>>)
Scoped == get(mapping_country, <<TheCountry, TheToken>>)
HasGlobal == has(mapping, TheToken)
Global == get(mapping, TheToken)

\* what the fallback classifier returned for the row, when it was asked
GGAsked == last[1].gg \in GGCategories
GGReturned == gg_guess(TheToken, last[1].gg)

Cells(e) == <<e[1], format_3f(e[2])>>
EmittedPair == SubSeq(Emitted, 1, 2)

C_0_000 == <<"0",".","0","0","0">>
C_0_467 == <<"0",".","4","6","7">>
C_0_525 == <<"0",".","5","2","5">>
C_0_667 == <<"0",".","6","6","7">>
C_0_800 == <<"0",".","8","0","0">>

Sources == {S_country_mapped, S_mapped, S_gender_guesser, S_unknown}

\* the count of a label in a Counter, 0 when absent
CountOf(ctr, l) == IF has(ctr, l) THEN get(ctr, l) ELSE 0
TotalOf(ctr) == CountOf(ctr, G_M) + CountOf(ctr, G_F) + CountOf(ctr, G_Unknown)
TopOf(ctr) == CHOOSE n \in {CountOf(ctr, l) : l \in Labels} :
                  \A l \in Labels : CountOf(ctr, l) <= n
\* the second count of the descending order (0 with one label observed)
SecondOf(ctr) ==
    IF Len(ctr) < 2 THEN 0
    ELSE CHOOSE n \in {ctr[i].v : i \in 1..Len(ctr)} :
             \E i \in 1..Len(ctr) :
                 /\ ctr[i].v = TopOf(ctr)
                 /\ n \in {ctr[j].v : j \in 1..Len(ctr) \ {i}}
                 /\ \A j \in 1..Len(ctr) \ {i} : ctr[j].v <= n

MappingBuilt == pc \in {"in_header", "in_rows", "done"}

-----------------------------------------------------------------------------
(* C1 *)

\* C1 as stated: a scoped entry at or above CONF_THRESHOLD is emitted as it is,
\* source "country-mapped", whatever its label
C1_CountryPrecedence_AnyLabel ==
    (Decided /\ TheToken # <<>> /\ HasScoped /\ rat_ge(Scoped[2], CONF_THRESHOLD))
        => Emitted = Cells(Scoped) \o <<S_country_mapped>>

\* C1, amended: for every decorated row with a non-empty token, a scoped entry
\* for (country, token) at or above CONF_THRESHOLD whose label is M or F is
\* emitted as it is, source "country-mapped", whatever the global entry holds and
\* whether or not the fallback classifier is available
C1_CountryPrecedence ==
    (Decided /\ TheToken # <<>> /\ HasScoped /\ rat_ge(Scoped[2], CONF_THRESHOLD)
             /\ Scoped[1] # G_Unknown)
        => /\ Emitted = Cells(Scoped) \o <<S_country_mapped>>
           /\ last[1].chosen_conf = Scoped[2]

\* a scoped entry above the threshold wins against a more confident global
\* entry of the other label's making, the classifier being available
C1_Witness ==
    /\ Decided /\ TheToken # <<>> /\ HasScoped /\ HasGlobal
    /\ GG_AVAILABLE
    /\ rat_ge(Scoped[2], CONF_THRESHOLD)
    /\ rat_gt(Global[2], Scoped[2])
    /\ Emitted[3] = S_country_mapped

-----------------------------------------------------------------------------
(* C2 *)

\* the entry the ConfidenceModel owes a Counter
IsEntryOf(e, ctr) ==
    /\ CountOf(ctr, e[1]) = TopOf(ctr)
    /\ e[3] = TotalOf(ctr)
    /\ IF TotalOf(ctr) < 5 /\ TopOf(ctr) < TotalOf(ctr)
       THEN e[2][1] * TotalOf(ctr) * 10 = TopOf(ctr) * 7 * e[2][2]
       ELSE e[2][1] * TotalOf(ctr) = TopOf(ctr) * e[2][2]

\* C2: once the mappings are built, every name (and every (country, name)) of
\* the count tables has the entry (topGender, conf, total): topGender has the
\* highest count, total is the sum of the counts, conf is topCount/total, times
\* 0.7 exactly when total < 5 and topCount < total; {M:8, F:2} gives 0.8 and
\* {M:3, F:1} gives 0.525; names without counts have no entry
C2_ConfidenceModel ==
    MappingBuilt =>
        /\ \A i \in 1..Len(counts_global) :
              /\ has(mapping, counts_global[i].k)
              /\ IsEntryOf(get(mapping, counts_global[i].k), counts_global[i].v)
        /\ \A i \in 1..Len(mapping) : has(counts_global, mapping[i].k)
        /\ \A i \in 1..Len(counts_by_country) :
              \A j \in 1..Len(counts_by_country[i].v) :
                  LET key == <<counts_by_country[i].k, counts_by_country[i].v[j].k>>
                  IN  /\ has(mapping_country, key)
                      /\ IsEntryOf(get(mapping_country, key), counts_by_country[i].v[j].v)
        /\ \A i \in 1..Len(mapping_country) :
              /\ has(counts_by_country, mapping_country[i].k[1])
              /\ has(get(counts_by_country, mapping_country[i].k[1]),
                     mapping_country[i].k[2])
        /\ \A i \in 1..Len(counts_global) :
              /\ (CountOf(counts_global[i].v, G_M) = 8
                  /\ CountOf(counts_global[i].v, G_F) = 2
                  /\ CountOf(counts_global[i].v, G_Unknown) = 0)
                 => format_3f(get(mapping, counts_global[i].k)[2]) = C_0_800
              /\ (CountOf(counts_global[i].v, G_M) = 3
                  /\ CountOf(counts_global[i].v, G_F) = 1
                  /\ CountOf(counts_global[i].v, G_Unknown) = 0)
                 => format_3f(get(mapping, counts_global[i].k)[2]) = C_0_525

\* the mappings are built from {M:3, F:1}, globally and for a country: penalized
C2_Witness ==
    /\ MappingBuilt
    /\ has(counts_global, N_alex)
    /\ get(counts_global, N_alex) = <<Item(G_M, 3), Item(G_F, 1)>>
    /\ has(mapping_country, <<C_US, N_alex>>)
    /\ get(mapping_country, <<C_US, N_alex>>)[2] = <<21, 40>>
    /\ get(mapping, N_alex) = <<G_M, <<21, 40>>, 4>>

-----------------------------------------------------------------------------
(* C3 *)

\* the reference rows ("Alex","M"), ("Alex","F"), ("Alex","F") of a file without
\* a country column have been aggregated
AlexAggregated ==
    /\ country_idx = -1
    /\ counts_global = <<Item(N_alex, <<Item(G_M, 1), Item(G_F, 2)>>)>>
    /\ counts_by_country = <<>>

AlexFlagged == \E i \in 2..Len(audit) : audit[i][1] = N_alex

AlexSmithDecided ==
    Decided /\ ~GG_AVAILABLE /\ TheRow = <<N_Alex_Smith, C_US>>

\* C3 as stated: the entry for "alex" is (Female, 0.667, 3), the name is audited,
\* and without the classifier ("Alex Smith","US") is emitted as
\* (Female, 0.667, "mapped")
C3_AlexScenario_Unpenalized ==
    (AlexAggregated /\ MappingBuilt) =>
        /\ get(mapping, N_alex)[1] = G_F
        /\ rat_eq(get(mapping, N_alex)[2], <<2, 3>>)
        /\ get(mapping, N_alex)[3] = 3
        /\ (pc = "done" => AlexFlagged)
        /\ (AlexSmithDecided => Emitted = <<G_F, C_0_667, S_mapped>>)

\* C3, amended: the entry for "alex" is (Female, 2/3 * 0.7, 3), written 0.467
\* (total 3 is below MIN_COUNT_FOR_CONFIDENCE), the name is audited with the
\* unpenalized share 0.667, and without the classifier ("Alex Smith","US") is
\* emitted as (Female, 0.467, "mapped")
C3_AlexScenario ==
    (AlexAggregated /\ MappingBuilt) =>
        /\ get(mapping, N_alex)[1] = G_F
        /\ rat_eq(get(mapping, N_alex)[2], <<14, 30>>)
        /\ get(mapping, N_alex)[3] = 3
        /\ (pc = "done" =>
               \E i \in 2..Len(audit) :
                   audit[i] = <<N_alex, G_F, <<"2">>, <<"1">>, <<"3">>, C_0_667>>)
        /\ (AlexSmithDecided => Emitted = <<G_F, C_0_467, S_mapped>>)

C3_Witness ==
    /\ AlexAggregated /\ pc = "done" /\ AlexSmithDecided /\ AlexFlagged
    /\ Emitted = <<G_F, C_0_467, S_mapped>>

-----------------------------------------------------------------------------
(* C4 *)

\* C4: with the classifier available and no scoped entry for the row: a token
\* without a global entry takes the classifier's answer of confidence >= 0.85,
\* source "gender-guesser"; a token whose global entry has confidence c below
\* CONF_THRESHOLD keeps that entry, source "mapped", when the classifier answers
\* with k < 0.85 and k < c
C4_FallbackArbitration ==
    (Decided /\ TheToken # <<>> /\ GG_AVAILABLE /\ ~HasScoped) =>
        /\ (~HasGlobal /\ GGAsked /\ rat_ge(GGReturned[2], <<17, 20>>))
              => Emitted = Cells(GGReturned) \o <<S_gender_guesser>>
        /\ (~HasGlobal) => GGAsked
        /\ (HasGlobal /\ rat_lt(Global[2], CONF_THRESHOLD) /\ GGAsked
             /\ rat_lt(GGReturned[2], <<17, 20>>) /\ rat_lt(GGReturned[2], Global[2]))
              => Emitted = Cells(Global) \o <<S_mapped>>

\* the classifier says "andy" (0.5) of a name whose global entry is a little
\* more confident than that, and below the threshold
C4_Witness ==
    /\ Decided /\ TheToken # <<>> /\ GG_AVAILABLE /\ ~HasScoped /\ HasGlobal
    /\ last[1].gg = "andy"
    /\ rat_lt(Global[2], CONF_THRESHOLD)
    /\ rat_gt(Global[2], <<1, 2>>)
    /\ Emitted[3] = S_mapped

-----------------------------------------------------------------------------
(* C7 *)

\* C7: a row whose name token is empty is emitted as (Unknown, 0.000, "unknown"),
\* whatever the mappings hold and whether or not the classifier is available,
\* and the classifier is not asked
C7_EmptyToken ==
    (Decided /\ TheToken = <<>>) =>
        /\ Emitted = <<G_Unknown, C_0_000, S_unknown>>
        /\ ~GGAsked

C7_Witness ==
    /\ Decided /\ TheToken = <<>> /\ TheRow[1] = N_K_N_Johnson
    /\ GG_AVAILABLE /\ mapping # <<>> /\ mapping_country # <<>>
    /\ Emitted[3] = S_unknown

-----------------------------------------------------------------------------
(* C9 *)

\* C9: the source of an emitted result tells where it comes from:
\* "country-mapped" is the scoped entry of (country, token), whose confidence is
\* at least CONF_THRESHOLD; "mapped" is the global entry of the token;
\* "gender-guesser" is what the available classifier returned for the token;
\* "unknown" is (Unknown, 0.000)
C9_SourceTag ==
    Decided =>
        /\ Emitted[3] \in Sources
        /\ Emitted[3] = last[1].source
        /\ Emitted[3] = S_country_mapped =>
              /\ TheToken # <<>> /\ HasScoped
              /\ EmittedPair = Cells(Scoped)
              /\ last[1].chosen_conf = Scoped[2]
              /\ rat_ge(Scoped[2], CONF_THRESHOLD)
        /\ Emitted[3] = S_mapped =>
              /\ TheToken # <<>> /\ HasGlobal
              /\ EmittedPair = Cells(Global)
              /\ last[1].chosen_conf = Global[2]
        /\ Emitted[3] = S_gender_guesser =>
              /\ GG_AVAILABLE /\ GGAsked
              /\ EmittedPair = Cells(GGReturned)
              /\ last[1].chosen_conf = GGReturned[2]
        /\ Emitted[3] = S_unknown =>
              /\ EmittedPair = <<G_Unknown, C_0_000>>
              /\ last[1].chosen_conf = Zero

\* the classifier's answer is emitted for a name that has a global entry
C9_Witness ==
    /\ Decided /\ HasGlobal /\ GGAsked
    /\ Emitted[3] = S_gender_guesser
    /\ Emitted[1] = G_F
    /\ Global[1] = G_M

-----------------------------------------------------------------------------
(* C10 *)

\* C10: a row whose non-empty token has a global entry is never emitted as
\* (Unknown, 0.000, "unknown"), and when its emitted gender is Unknown the
\* result is the global entry itself, source "mapped"
C10_FinalSafetyNet ==
    (Decided /\ TheToken # <<>> /\ HasGlobal) =>
        /\ Emitted # <<G_Unknown, C_0_000, S_unknown>>
        /\ Emitted[1] = G_Unknown => Emitted = Cells(Global) \o <<S_mapped>>

\* the classifier answers Unknown with more confidence than the global entry
\* has, the scoped entry's label is Unknown too: the global entry is emitted
C10_Witness ==
    /\ Decided /\ TheToken # <<>> /\ HasGlobal /\ HasScoped /\ GG_AVAILABLE
    /\ last[1].gg = "andy"
    /\ rat_lt(Global[2], <<1, 2>>)
    /\ Scoped[1] = G_Unknown
    /\ Emitted = Cells(Global) \o <<S_mapped>>

-----------------------------------------------------------------------------
(* C5 *)

\* an input data record: a non-empty row whose first cell is not "name"
IsDataRecord(row) == row # <<>> /\ lower(strip(row[1])) # L_name

IsDecorated(out, row) ==
    /\ Len(out) = Len(row) + 3
    /\ SubSeq(out, 1, Len(row)) = row
    /\ out[Len(row) + 1] \in Labels
    /\ Len(out[Len(row) + 2]) = 5 /\ out[Len(row) + 2][2] = "."
    /\ out[Len(row) + 3] \in Sources

\* C5: whatever the input file begins with, the output holds at most one header
\* row and then, in input order, exactly one decorated row per data record read
\* from the input: the record's cells followed by gender, confidence and source
C5_StreamShape ==
    (pc \in {"in_rows", "done"}) =>
        LET records == SelectSeq(in_read, IsDataRecord)
        IN  \E h \in {0, 1} :
               /\ Len(output) = h + Len(records)
               /\ \A i \in 1..Len(records) : IsDecorated(output[h + i], records[i])

\* what holds of the code: the rows after the first are decorated one by one, in
\* order; the first row is written as the header whatever it holds
C5_RowsAfterTheFirst ==
    (pc \in {"in_rows", "done"} /\ in_read # <<>>) =>
        LET records == SelectSeq(Tail(in_read), IsDataRecord)
        IN  /\ Len(output) = 1 + Len(records)
            /\ \A i \in 1..Len(records) : IsDecorated(output[1 + i], records[i])
            /\ written = Len(records)

-----------------------------------------------------------------------------
(* C6 *)

\* the flag rule of the audit, on the counts of a name
FlagRule(ctr) ==
    \/ TotalOf(ctr) < 50
    \/ 10 * TopOf(ctr) < 7 * TotalOf(ctr)
    \/ (Len(ctr) >= 2 /\ TopOf(ctr) - SecondOf(ctr) < 3)

AuditRowsOf(name) == {i \in 2..Len(audit) : audit[i][1] = name}

\* C6: in the audit file a name of the global count table has exactly one row
\* (name, topGender, topCount, secondCount, total, topCount/total) if its total
\* is below 50, or its unpenalized share below 0.7, or two labels were observed
\* and the two highest counts are less than 3 apart, and no row otherwise;
\* {M:1, F:1} is flagged, {M:1000, F:2} is not
C6_AuditFlagRule ==
    (pc = "done") =>
        /\ audit[1] = AuditHeader
        /\ \A i \in 1..Len(counts_global) :
              LET name == counts_global[i].k
                  ctr == counts_global[i].v
              IN  /\ FlagRule(ctr) =>
                         \E r \in AuditRowsOf(name) :
                            /\ AuditRowsOf(name) = {r}
                            /\ Len(audit[r]) = 6
                            /\ CountOf(ctr, audit[r][2]) = TopOf(ctr)
                            /\ audit[r][3] = int_str(TopOf(ctr))
                            /\ audit[r][4] = int_str(SecondOf(ctr))
                            /\ audit[r][5] = int_str(TotalOf(ctr))
                            /\ audit[r][6] = format_3f(<<TopOf(ctr), TotalOf(ctr)>>)
                  /\ ~FlagRule(ctr) => AuditRowsOf(name) = {}
                  /\ (TotalOf(ctr) = 2 /\ CountOf(ctr, G_M) = 1 /\ CountOf(ctr, G_F) = 1)
                        => AuditRowsOf(name) # {}
                  /\ (TotalOf(ctr) = 1002 /\ CountOf(ctr, G_M) = 1000
                        /\ CountOf(ctr, G_F) = 2)
                        => AuditRowsOf(name) = {}
        /\ \A r \in 2..Len(audit) : has(counts_global, audit[r][1])

\* {M:1000, F:2} is not audited while the other name of the table is
C6_Witness ==
    /\ pc = "done"
    /\ has(counts_global, N_alex)
    /\ get(counts_global, N_alex) = <<Item(G_F, 2), Item(G_M, 1000)>>
    /\ AuditRowsOf(N_alex) = {}
    /\ AuditRowsOf(T_kim) # {}

-----------------------------------------------------------------------------
(* C8 *)

\* the tokens of a string, as the spans of its maximal runs of non-whitespace
IsTokenSpan(t, i, j) ==
    /\ i <= j
    /\ \A k \in i..j : t[k] \notin Whitespace
    /\ (i = 1 \/ t[i - 1] \in Whitespace)
    /\ (j = Len(t) \/ t[j + 1] \in Whitespace)

TokenSpans(t) == {sp \in (1..Len(t)) \X (1..Len(t)) : IsTokenSpan(t, sp[1], sp[2])}

\* the spans that begin after n earlier ones
NthSpans(t, n) ==
    {sp \in TokenSpans(t) : Cardinality({o \in TokenSpans(t) : o[1] < sp[1]}) = n}

NthToken(t, n) ==
    LET sp == CHOOSE x \in NthSpans(t, n - 1) : TRUE
    IN  SubSeq(t, sp[1], sp[2])

\* the initial policy on the cleaned name
PolicyToken(t) ==
    IF TokenSpans(t) = {} THEN <<>>
    ELSE IF Len(NthToken(t, 1)) = 1
         THEN IF Cardinality(TokenSpans(t)) > 1 /\ Len(NthToken(t, 2)) > 1
              THEN lower(NthToken(t, 2)) ELSE <<>>
         ELSE lower(NthToken(t, 1))

\* C8: the name token of a decorated row is the initial policy applied to the
\* name without its disallowed characters: empty without tokens; after a first
\* token of length 1, the second token lowercased if it is longer than one
\* character and empty if not; the first token lowercased otherwise.  So
\* "K N Johnson" gives "", "K Johnson" gives "johnson", "Mary Ann Smith" gives
\* "mary", and no token has one character
C8_InitialPolicy ==
    Decided =>
        /\ last[1].fname = PolicyToken(valid_chars_sub(TheRow[1]))
        /\ Len(last[1].fname) # 1
        /\ TheRow[1] = N_K_N_Johnson => last[1].fname = <<>>
        /\ TheRow[1] = N_K_Johnson => last[1].fname = <<"j","o","h","n","s","o","n">>
        /\ TheRow[1] = N_Mary_Ann_Smith => last[1].fname = <<"m","a","r","y">>

\* two initials, then a long token: nothing usable is found
C8_Witness ==
    /\ Decided
    /\ TheRow[1] = <<"K"," ","K"," ","a","a">>
    /\ last[1].fname = <<>>

====
